---- MODULE Spec2Model ----
(***************************************************************************)
(* Offline-first synchronisation engine of the task PWA.                   *)
(*                                                                         *)
(* State: the two IndexedDB object stores (tasks, syncQueue), the zustand  *)
(* task store (tasks, loading, error, syncStatus, isOffline), the browser  *)
(* connectivity flag, the Remote Task Service's records, and the drains    *)
(* (executions of syncManager.syncWithBackend) that are in flight.         *)
(*                                                                         *)
(* Abstractions: a Task keeps id, title, completed and version (the        *)
(* description, the timestamps and userId take no part in any decision of  *)
(* the engine); an id `${Date.now()}-${random}` is the pair <<ms, r>>,     *)
(* compared the way IndexedDB compares the two strings (the millisecond    *)
(* part has a fixed number of digits, so first by ms, then by suffix); a   *)
(* server-assigned id is the pair <<0, n>>.  The clock is read once per   *)
(* call of the engine: the ids and the timestamp of one call share its ms. *)
(***************************************************************************)
EXTENDS Integers, Sequences, FiniteSets, TLC

\* ------------------------------------------------------------------ bounds
\* Date.now() takes the values 1..MaxClock.
MaxClock == 2
\* At most MaxOps SyncOperations are ever enqueued.
MaxOps == 2
\* Versions stay within 1..MaxVersion.
MaxVersion == 3
\* The values Math.random().toString(36).substr(2, 9) can take, in string order.
RandomSuffixes == {1, 2}
\* The ids the Remote Task Service assigns.
ServerIds == {<<0, 1>>}
\* The titles typed into the form, and those typed where the title matters.
Titles == {"Buy milk"}
FormTitles == {"Buy milk", "Call dentist"}
\* The executions of syncWithBackend that can be in flight together, and the
\* one slot of the runs in which a drain is requested only when none is in flight.
DrainSlots == {1, 2}
OneSlot == {1}
\* The calls of the offline functions that can be in progress together.
CallSlots == {1, 2}

NoId == <<0, 0>>
NoTask == [id |-> NoId, title |-> "", completed |-> FALSE, version |-> 0]
EmptyData == [f \in {} |-> TRUE]
NoResult == [synced |-> 0, conflicts |-> {}]
IdleDrain == [pc |-> "idle", batch |-> <<>>, response |-> NoResult]
IdleCall == [pc |-> "idle", via |-> "", id |-> NoId, updates |-> EmptyData, task |-> NoTask]

VARIABLES
    now,          \* the last value Date.now() returned
    taskDB,       \* IndexedDB store 'tasks': set of Task records, keyed by id
    syncQueue,    \* IndexedDB store 'syncQueue': set of SyncOperation records, keyed by id
    tasks,        \* useTaskStore.tasks: the task list shown
    loading,      \* useTaskStore.loading
    error,        \* useTaskStore.error ("" is null)
    syncStatus,   \* useTaskStore.syncStatus
    isOffline,    \* useTaskStore.isOffline
    navOnline,    \* navigator.onLine
    app,          \* position of PWAProviders' init: "loading", "loaded", "ready"
    listeners,    \* how many times setupAutoSync has registered its two listeners
    dbInstance,   \* db.ts dbInstance: TRUE once openDB has resolved in this page, FALSE is null
    drains,       \* per slot: position, batch read and response received of a syncWithBackend
    conflictList, \* the conflicts prop of ConflictResolutionDialog
    calls,        \* per slot: an offline function of syncManager that is between two of its awaits
    serverTasks,  \* the records the Remote Task Service holds
    serverTrash,  \* the ids of the records the Remote Task Service has moved to its trash
    enqueueLog,   \* the ids of the stored SyncOperations, in the order syncQueueDB.add stored them
    enqueued,     \* the number of SyncOperations enqueued so far
    ref,          \* the cumulative effect of the offline calls on the persisted tasks
    last          \* the step that was taken last

vars == <<now, taskDB, syncQueue, tasks, loading, error, syncStatus, isOffline,
          navOnline, app, listeners, dbInstance, drains, conflictList, calls,
          serverTasks, serverTrash, enqueueLog, enqueued, ref, last>>

uiVars == <<tasks, loading, error, syncStatus, isOffline>>

\* ------------------------------------------------------------- Local Store
\* IndexedDB orders the records of a store by key; a key is the id string.
KeyLess(a, b) == a[1] < b[1] \/ (a[1] = b[1] /\ a[2] < b[2])

\* db.getAll(store): every record, in key order.
RECURSIVE GetAll(_)
GetAll(store) ==
    IF store = {} THEN <<>>
    ELSE LET first == CHOOSE x \in store : \A y \in store : y.id = x.id \/ KeyLess(x.id, y.id)
         IN  <<first>> \o GetAll(store \ {first})

Ids(store) == {r.id : r \in store}

\* db.get(store, id): the record, or undefined (NoTask).
DBGet(store, id) == IF id \in Ids(store) THEN CHOOSE r \in store : r.id = id ELSE NoTask

\* db.put(store, record): insert or replace by key.
DBPut(store, rec) == {r \in store : r.id # rec.id} \cup {rec}

\* db.delete(store, id): no-op when absent.
DBDelete(store, id) == {r \in store : r.id # id}

\* taskDB.bulkPut(tasks): puts each record; records not in the list stay.
RECURSIVE BulkPut(_, _)
BulkPut(store, list) ==
    IF list = <<>> THEN store ELSE BulkPut(DBPut(store, Head(list)), Tail(list))

\* syncQueueDB.getUnsynced(): getAll filtered on !op.synced.
GetUnsynced(queue) == SelectSeq(GetAll(queue), LAMBDA op : ~op.synced)

\* syncQueueDB.markSynced(id): sets synced on the stored operation, if it is there.
MarkSynced(queue, id) ==
    {IF op.id = id THEN [op EXCEPT !.synced = TRUE] ELSE op : op \in queue}

\* Mutant: only the first operation of the batch is marked.
MarkAllSynced_HeadOnly(queue, batch) ==
    IF batch = <<>> THEN queue ELSE MarkSynced(queue, Head(batch).id)

\* Promise.all(operations.map(op => syncQueueDB.markSynced(op.id)))
RECURSIVE MarkAllSynced(_, _)
MarkAllSynced(queue, batch) ==
    IF batch = <<>> THEN queue
    ELSE MarkAllSynced(MarkSynced(queue, Head(batch).id), Tail(batch))

\* syncQueueDB.clearSynced(): deletes every operation whose synced flag is set.
ClearSynced(queue) == {op \in queue : ~op.synced}

\* ------------------------------------------------------------ useTaskStore
Range(seq) == {seq[i] : i \in 1..Len(seq)}

\* {...task, ...updates}
Merge(task, updates) ==
    [f \in DOMAIN task |-> IF f \in DOMAIN updates THEN updates[f] ELSE task[f]]

StoreAddTask(list, task) == Append(list, task)

StoreUpdateTask(list, id, updates) ==
    [i \in 1..Len(list) |->
        IF list[i].id = id
        THEN [Merge(list[i], updates) EXCEPT !.version = list[i].version + 1]
        ELSE list[i]]

StoreDeleteTask(list, id) == SelectSeq(list, LAMBDA t : t.id # id)

\* -------------------------------------------------------------------- ids
\* generateId(): `${Date.now()}-${random}`, at a clock value not before `from`.
GeneratedIds(from) == {<<ms, r>> : ms \in from..MaxClock, r \in RandomSuffixes}

\* The ids generateId() can give at the clock value ms.
IdsAt(ms) == {i \in GeneratedIds(ms) : i[1] = ms}

CanEnqueue == enqueued < MaxOps

\* The step taken: the operation, the task it was about, the path it took
\* ("offline": isOffline was set; "fallback": the online call failed, the
\* network being down; "unauthenticated", "validation": the service rejected it;
\* "online": the online call succeeded; "api": a direct call of the engine)
\* and how it ended ("ok"; "threw": the call rejected to its caller; "caught":
\* syncWithBackend caught the failure of the batch call; "noop").
Step(op, id, via, res) == [op |-> op, id |-> id, via |-> via, res |-> res]

\* ------------------------------------------------------ Remote Task Service
\* The body api.tasks.update serialises: of the fields modelled, title and
\* completed; id and version are not sent.
ApiUpdateBody(data) == [f \in (DOMAIN data) \cap {"title", "completed"} |-> data[f]]

\* update(id, partial) -> Task: merges, increments version, returns the record.
ServerUpdated(id, body) ==
    LET held == DBGet(serverTasks, id)
    IN  [Merge(held, body) EXCEPT !.version = held.version + 1]

\* Server ids already given out are not given out again.
FreshServerIds == ServerIds \ (Ids(serverTasks) \cup serverTrash)

\* syncOperations(operations) -> {synced, conflicts}: the conflicts are records
\* the service holds for tasks the batch targets; synced counts the operations
\* on the other tasks.
SyncResponses(batch) ==
    LET targeted == {r \in serverTasks : \E i \in 1..Len(batch) : batch[i].taskId = r.id}
    IN  {[synced |-> Cardinality({i \in 1..Len(batch) : batch[i].taskId \notin Ids(c)}),
          conflicts |-> c] : c \in SUBSET targeted}

\* ----------------------------------------------- cumulative effect (spec 4.3)
\* create: a record with version 1, not completed; update: the partial fields
\* merged and the version incremented; delete: the record removed.
RefCreate(store, id, title) ==
    store \cup {[id |-> id, title |-> title, completed |-> FALSE, version |-> 1]}

RefUpdate(store, id, updates) ==
    {IF r.id = id
     THEN [id |-> r.id,
           title |-> IF "title" \in DOMAIN updates THEN updates.title ELSE r.title,
           completed |-> IF "completed" \in DOMAIN updates THEN updates.completed ELSE r.completed,
           version |-> r.version + 1]
     ELSE r : r \in store}

RefDelete(store, id) == store \ {r \in store : r.id = id}

\* ------------------------------------------------------------- syncManager
NewTask(tempId, title) ==
    [id |-> tempId, title |-> title, completed |-> FALSE, version |-> 1]

\* Mutant: the operation is filed under its own id instead of the task's.
NewOperation_OwnId(opId, kind, taskId, data, ts) ==
    [id |-> opId, operation |-> kind, taskId |-> opId, data |-> data,
     timestamp |-> ts, synced |-> FALSE]

NewOperation(opId, kind, taskId, data, ts) ==
    [id |-> opId, operation |-> kind, taskId |-> taskId, data |-> data,
     timestamp |-> ts, synced |-> FALSE]

FreshOpIds(from) == {i \in GeneratedIds(from) : i \notin Range(enqueueLog)}

\* The id generateId() gives a new task: one no task has.  Which of the fresh
\* ids it is decides nothing but the place of the task in getAll, so the model
\* takes the first.
FreshTaskIds(ms) == IdsAt(ms) \ (Ids(taskDB) \cup Ids(Range(tasks)))

TempId(ms) ==
    CHOOSE i \in FreshTaskIds(ms) : \A j \in FreshTaskIds(ms) : j = i \/ KeyLess(i, j)

\* Mutant: the rejection of initDB is swallowed, the call resolves.
InitDBRejected_Swallowed(op, id, via) ==
    /\ ~dbInstance
    /\ last' = Step(op, id, via, "ok")
    /\ UNCHANGED <<now, taskDB, syncQueue, tasks, loading, error, syncStatus, isOffline,
                   navOnline, app, listeners, dbInstance, drains, conflictList, calls, serverTasks,
                   serverTrash, enqueueLog, enqueued, ref>>

\* initDB() while dbInstance is null and openDB rejects: the first await of
\* the offline function (taskDB.put, taskDB.get, syncQueueDB.add) throws, and
\* the function rejects before it has stored or shown anything.
InitDBRejected(op, id, via) ==
    /\ ~dbInstance
    /\ last' = Step(op, id, via, "threw")
    /\ UNCHANGED <<now, taskDB, syncQueue, tasks, loading, error, syncStatus, isOffline,
                   navOnline, app, listeners, dbInstance, drains, conflictList, calls, serverTasks,
                   serverTrash, enqueueLog, enqueued, ref>>

\* syncManager.createTaskOffline(data)
CreateTaskOffline(title, via) ==
    \/ InitDBRejected("create", NoId, via)
    \/ /\ CanEnqueue
       /\ \E opId \in FreshOpIds(now) :
            LET tempId == TempId(opId[1])
                task == NewTask(tempId, title)
                operation == NewOperation(opId, "create", tempId, task, opId[1])
            IN  /\ FreshTaskIds(opId[1]) # {}
                /\ taskDB' = DBPut(taskDB, task)
                /\ syncQueue' = DBPut(syncQueue, operation)
                /\ tasks' = StoreAddTask(tasks, task)
                /\ enqueueLog' = Append(enqueueLog, opId)
                /\ enqueued' = enqueued + 1
                /\ ref' = RefCreate(ref, tempId, title)
                /\ now' = opId[1]
                /\ last' = Step("create", tempId, via, "ok")
       /\ dbInstance' = TRUE
       /\ UNCHANGED <<loading, error, syncStatus, isOffline, navOnline, app, listeners, drains,
                      conflictList, calls, serverTasks, serverTrash>>

\* Mutant: the partial fields are not merged into the persisted record.
UpdatedTask_Unmerged(task, updates) == [task EXCEPT !.version = task.version + 1]

\* The persisted record updateTaskOffline writes.
UpdatedTask(task, updates) ==
    [Merge(task, updates) EXCEPT !.version = task.version + 1]

\* syncManager.updateTaskOffline(id, updates)
UpdateTaskOffline(id, updates, via) ==
    \/ InitDBRejected("update", id, via)
    \/ LET task == DBGet(taskDB, id)
       IN  IF task = NoTask
           THEN \* throw new Error('Task not found')
                /\ last' = Step("update", id, via, "threw")
                /\ dbInstance' = TRUE
                /\ UNCHANGED <<now, taskDB, syncQueue, tasks, loading, error, syncStatus,
                               isOffline, navOnline, app, listeners, drains, conflictList, calls,
                               serverTasks, serverTrash, enqueueLog, enqueued, ref>>
           ELSE /\ CanEnqueue
                /\ task.version < MaxVersion
                /\ \A t \in Range(tasks) : t.id = id => t.version < MaxVersion
                /\ \E opId \in FreshOpIds(now) :
                     /\ taskDB' = DBPut(taskDB, UpdatedTask(task, updates))
                     /\ syncQueue' = DBPut(syncQueue, NewOperation(opId, "update", id, updates, opId[1]))
                     /\ enqueueLog' = Append(enqueueLog, opId)
                     /\ enqueued' = enqueued + 1
                     /\ now' = opId[1]
                /\ tasks' = StoreUpdateTask(tasks, id, updates)
                /\ ref' = RefUpdate(ref, id, updates)
                /\ last' = Step("update", id, via, "ok")
                /\ dbInstance' = TRUE
                /\ UNCHANGED <<loading, error, syncStatus, isOffline, navOnline, app, listeners,
                               drains, conflictList, calls, serverTasks, serverTrash>>

\* syncManager.deleteTaskOffline(id)
DeleteTaskOffline(id, via) ==
    \/ InitDBRejected("delete", id, via)
    \/ /\ CanEnqueue
       /\ \E opId \in FreshOpIds(now) :
            /\ syncQueue' = DBPut(syncQueue, NewOperation(opId, "delete", id, EmptyData, opId[1]))
            /\ enqueueLog' = Append(enqueueLog, opId)
            /\ enqueued' = enqueued + 1
            /\ now' = opId[1]
       /\ taskDB' = DBDelete(taskDB, id)
       /\ tasks' = StoreDeleteTask(tasks, id)
       /\ ref' = RefDelete(ref, id)
       /\ last' = Step("delete", id, via, "ok")
       /\ dbInstance' = TRUE
       /\ UNCHANGED <<loading, error, syncStatus, isOffline, navOnline, app, listeners, drains,
                      conflictList, calls, serverTasks, serverTrash>>

\* ---------------------------------------------------------- UI handlers
\* How an online call fails: fetchApi throws for a network failure
\* ("fallback": code NETWORK_ERROR), for a 401 and for a 422 alike; the
\* handlers' catch does not look at what was thrown.
NetworkDown == {"fallback"}
Rejections == {"unauthenticated", "validation"}
Failures == NetworkDown \cup Rejections

Shown(id) == id \in Ids(Range(tasks))

\* tasks.find((t) => t.id === id)
Find(list, id) == list[CHOOSE i \in 1..Len(list) : list[i].id = id /\ \A j \in 1..(i - 1) : list[j].id # id]

\* api.tasks.create(taskData) succeeds; the form adds the returned task to the list.
CreateOnline(title) ==
    /\ navOnline
    /\ \E sid \in FreshServerIds :
         LET task == NewTask(sid, title)
         IN  /\ serverTasks' = serverTasks \cup {task}
             /\ tasks' = StoreAddTask(tasks, task)
             /\ last' = Step("create", sid, "online", "ok")
    /\ UNCHANGED <<now, taskDB, syncQueue, loading, error, syncStatus, isOffline,
                   navOnline, app, listeners, dbInstance, drains, conflictList, calls, serverTrash, enqueueLog, enqueued, ref>>

\* AddTaskForm.handleSubmit
HandleSubmit(title, failures) ==
    /\ app = "ready"
    /\ IF isOffline
       THEN CreateTaskOffline(title, "offline")
       ELSE \/ CreateOnline(title)
            \/ \E failure \in failures : CreateTaskOffline(title, failure)

\* api.tasks.update(id, updates) succeeds; the list is updated through the store.
UpdateOnline(id, updates) ==
    /\ navOnline
    /\ id \in Ids(serverTasks)
    /\ DBGet(serverTasks, id).version < MaxVersion
    /\ Find(tasks, id).version < MaxVersion
    /\ serverTasks' = DBPut(serverTasks, ServerUpdated(id, ApiUpdateBody(updates)))
    /\ tasks' = StoreUpdateTask(tasks, id, updates)
    /\ last' = Step("update", id, "online", "ok")
    /\ UNCHANGED <<now, taskDB, syncQueue, loading, error, syncStatus, isOffline,
                   navOnline, app, listeners, dbInstance, drains, conflictList, calls, serverTrash, enqueueLog, enqueued, ref>>

\* TaskList.handleToggleComplete
HandleToggleComplete(id, failures) ==
    /\ app = "ready"
    /\ Shown(id)
    /\ LET updates == [completed |-> ~Find(tasks, id).completed]
       IN  IF isOffline
           THEN UpdateTaskOffline(id, updates, "offline")
           ELSE \/ UpdateOnline(id, updates)
                \/ \E failure \in failures : UpdateTaskOffline(id, updates, failure)

\* api.tasks.delete(id) succeeds; the task leaves the list through the store.
DeleteOnline(id) ==
    /\ navOnline
    /\ id \in Ids(serverTasks)
    /\ serverTasks' = DBDelete(serverTasks, id)
    /\ serverTrash' = serverTrash \cup {id}
    /\ tasks' = StoreDeleteTask(tasks, id)
    /\ last' = Step("delete", id, "online", "ok")
    /\ UNCHANGED <<now, taskDB, syncQueue, loading, error, syncStatus, isOffline,
                   navOnline, app, listeners, dbInstance, drains, conflictList, calls, enqueueLog, enqueued, ref>>

\* TaskList.handleDelete
HandleDelete(id, failures) ==
    /\ app = "ready"
    /\ Shown(id)
    /\ IF isOffline
       THEN DeleteTaskOffline(id, "offline")
       ELSE \/ DeleteOnline(id)
            \/ \E failure \in failures : DeleteTaskOffline(id, failure)

\* ------------------------------- the offline functions, from await to await
\* The handlers do not wait for a call to end before they take the next
\* event: a second call can start while the first is suspended at an await.
InProgress == {c \in CallSlots : calls[c].pc # "idle"}

\* How a handler comes to call an offline function: isOffline is set, or its
\* online call failed.
CallVia(failures) == IF isOffline THEN {"offline"} ELSE failures

\* The synchronous part of a call, up to its first await.  IndexedDB is open.
StartCall(c, call) ==
    /\ app = "ready"
    /\ dbInstance
    /\ calls[c].pc = "idle"
    /\ \A e \in CallSlots : e < c => calls[e].pc # "idle"
    /\ enqueued + Cardinality(InProgress) < MaxOps
    /\ calls' = [calls EXCEPT ![c] = call]

EndCall(c) == calls' = [calls EXCEPT ![c] = IdleCall]

\* syncQueueDB.add(operation) of a call in progress.
AddOperation(c, kind, data) ==
    \E opId \in FreshOpIds(now) :
        /\ syncQueue' = DBPut(syncQueue, NewOperation(opId, kind, calls[c].id, data, opId[1]))
        /\ enqueueLog' = Append(enqueueLog, opId)
        /\ enqueued' = enqueued + 1
        /\ now' = opId[1]

\* handleSubmit calls createTaskOffline: the task is built under a generated
\* id, then the await of taskDB.put.
CreateCall(c, title, failures) ==
    /\ \E via \in CallVia(failures), ms \in now..MaxClock :
         LET free == FreshTaskIds(ms) \ {calls[e].id : e \in CallSlots}
             tempId == CHOOSE i \in free : \A j \in free : j = i \/ KeyLess(i, j)
         IN  /\ free # {}
             /\ StartCall(c, [pc |-> "createPut", via |-> via, id |-> tempId,
                              updates |-> EmptyData, task |-> NewTask(tempId, title)])
             /\ now' = ms
             /\ last' = Step("createCall", tempId, via, "ok")
    /\ UNCHANGED <<taskDB, syncQueue, tasks, loading, error, syncStatus, isOffline, navOnline,
                   app, listeners, dbInstance, drains, conflictList, serverTasks, serverTrash,
                   enqueueLog, enqueued, ref>>

\* taskDB.put(task) resolves; then the await of syncQueueDB.add.
CreatePut(c) ==
    /\ calls[c].pc = "createPut"
    /\ taskDB' = DBPut(taskDB, calls[c].task)
    /\ calls' = [calls EXCEPT ![c].pc = "createAdd"]
    /\ last' = Step("createPut", calls[c].id, calls[c].via, "ok")
    /\ UNCHANGED <<now, syncQueue, tasks, loading, error, syncStatus, isOffline, navOnline,
                   app, listeners, dbInstance, drains, conflictList, serverTasks, serverTrash,
                   enqueueLog, enqueued, ref>>

\* syncQueueDB.add(operation) resolves; addTask(task); the call returns.
CreateAdd(c) ==
    /\ calls[c].pc = "createAdd"
    /\ AddOperation(c, "create", calls[c].task)
    /\ tasks' = StoreAddTask(tasks, calls[c].task)
    /\ ref' = RefCreate(ref, calls[c].id, calls[c].task.title)
    /\ EndCall(c)
    /\ last' = Step("create", calls[c].id, calls[c].via, "ok")
    /\ UNCHANGED <<taskDB, loading, error, syncStatus, isOffline, navOnline, app, listeners,
                   dbInstance, drains, conflictList, serverTasks, serverTrash>>

\* handleToggleComplete calls updateTaskOffline(id, {completed}): the await of
\* taskDB.get.
UpdateCall(c, id, failures) ==
    /\ Shown(id)
    /\ \E via \in CallVia(failures) :
         /\ StartCall(c, [pc |-> "updateGet", via |-> via, id |-> id,
                          updates |-> [completed |-> ~Find(tasks, id).completed],
                          task |-> NoTask])
         /\ last' = Step("updateCall", id, via, "ok")
    /\ UNCHANGED <<now, taskDB, syncQueue, tasks, loading, error, syncStatus, isOffline,
                   navOnline, app, listeners, dbInstance, drains, conflictList, serverTasks,
                   serverTrash, enqueueLog, enqueued, ref>>

\* taskDB.get resolves: 'Task not found', or updatedTask is computed from the
\* record read; then the await of taskDB.put.
UpdateGet(c) ==
    /\ calls[c].pc = "updateGet"
    /\ LET task == DBGet(taskDB, calls[c].id)
       IN  IF task = NoTask
           THEN /\ EndCall(c)
                /\ last' = Step("update", calls[c].id, calls[c].via, "threw")
           ELSE /\ task.version < MaxVersion
                /\ calls' = [calls EXCEPT ![c].pc = "updatePut",
                                          ![c].task = UpdatedTask(task, calls[c].updates)]
                /\ last' = Step("updateGet", calls[c].id, calls[c].via, "ok")
    /\ UNCHANGED <<now, taskDB, syncQueue, tasks, loading, error, syncStatus, isOffline,
                   navOnline, app, listeners, dbInstance, drains, conflictList, serverTasks,
                   serverTrash, enqueueLog, enqueued, ref>>

\* taskDB.put(updatedTask) resolves; then the await of syncQueueDB.add.
UpdatePut(c) ==
    /\ calls[c].pc = "updatePut"
    /\ taskDB' = DBPut(taskDB, calls[c].task)
    /\ calls' = [calls EXCEPT ![c].pc = "updateAdd"]
    /\ last' = Step("updatePut", calls[c].id, calls[c].via, "ok")
    /\ UNCHANGED <<now, syncQueue, tasks, loading, error, syncStatus, isOffline, navOnline,
                   app, listeners, dbInstance, drains, conflictList, serverTasks, serverTrash,
                   enqueueLog, enqueued, ref>>

\* syncQueueDB.add(operation) resolves; updateTask(id, updates); the call returns.
UpdateAdd(c) ==
    /\ calls[c].pc = "updateAdd"
    /\ \A t \in Range(tasks) : t.id = calls[c].id => t.version < MaxVersion
    /\ AddOperation(c, "update", calls[c].updates)
    /\ tasks' = StoreUpdateTask(tasks, calls[c].id, calls[c].updates)
    /\ ref' = RefUpdate(ref, calls[c].id, calls[c].updates)
    /\ EndCall(c)
    /\ last' = Step("update", calls[c].id, calls[c].via, "ok")
    /\ UNCHANGED <<taskDB, loading, error, syncStatus, isOffline, navOnline, app, listeners,
                   dbInstance, drains, conflictList, serverTasks, serverTrash>>

\* handleDelete calls deleteTaskOffline(id): the await of syncQueueDB.add.
DeleteCall(c, id, failures) ==
    /\ Shown(id)
    /\ \E via \in CallVia(failures) :
         /\ StartCall(c, [pc |-> "deleteAdd", via |-> via, id |-> id,
                          updates |-> EmptyData, task |-> NoTask])
         /\ last' = Step("deleteCall", id, via, "ok")
    /\ UNCHANGED <<now, taskDB, syncQueue, tasks, loading, error, syncStatus, isOffline,
                   navOnline, app, listeners, dbInstance, drains, conflictList, serverTasks,
                   serverTrash, enqueueLog, enqueued, ref>>

\* syncQueueDB.add(operation) resolves; then the await of taskDB.delete.
DeleteAdd(c) ==
    /\ calls[c].pc = "deleteAdd"
    /\ AddOperation(c, "delete", EmptyData)
    /\ calls' = [calls EXCEPT ![c].pc = "deleteDelete"]
    /\ last' = Step("deleteAdd", calls[c].id, calls[c].via, "ok")
    /\ UNCHANGED <<taskDB, tasks, loading, error, syncStatus, isOffline, navOnline, app,
                   listeners, dbInstance, drains, conflictList, serverTasks, serverTrash, ref>>

\* taskDB.delete(id) resolves; deleteTask(id); the call returns.
DeleteDelete(c) ==
    /\ calls[c].pc = "deleteDelete"
    /\ taskDB' = DBDelete(taskDB, calls[c].id)
    /\ tasks' = StoreDeleteTask(tasks, calls[c].id)
    /\ ref' = RefDelete(ref, calls[c].id)
    /\ EndCall(c)
    /\ last' = Step("delete", calls[c].id, calls[c].via, "ok")
    /\ UNCHANGED <<now, syncQueue, loading, error, syncStatus, isOffline, navOnline, app,
                   listeners, dbInstance, drains, conflictList, serverTasks, serverTrash,
                   enqueueLog, enqueued>>

\* ------------------------------------------------- syncManager.syncWithBackend
InFlight(d) == drains[d].pc # "idle"

\* The call: setSyncStatus('syncing'), then the await of getUnsynced.  The
\* slots are interchangeable: a new execution takes the first of `slots` that
\* is free.
StartDrain(d, via, slots) ==
    /\ d \in slots
    /\ ~InFlight(d)
    /\ \A e \in slots : e < d => InFlight(e)
    /\ drains' = [drains EXCEPT ![d] = [IdleDrain EXCEPT !.pc = "reading"]]
    /\ syncStatus' = "syncing"
    /\ last' = Step("drainStart", NoId, via, "ok")

\* getUnsynced resolves; an empty batch ends the drain, another is sent.
DrainRead(d) ==
    /\ drains[d].pc = "reading"
    /\ LET operations == GetUnsynced(syncQueue)
       IN  IF operations = <<>>
           THEN /\ syncStatus' = "success"
                /\ drains' = [drains EXCEPT ![d] = IdleDrain]
                /\ last' = Step("drainEmpty", NoId, "api", "ok")
           ELSE /\ drains' = [drains EXCEPT ![d].pc = "sending", ![d].batch = operations]
                /\ last' = Step("drainSend", NoId, "api", "ok")
                /\ UNCHANGED syncStatus
    /\ UNCHANGED <<now, taskDB, syncQueue, tasks, loading, error, isOffline, navOnline,
                   app, listeners, dbInstance, conflictList, calls, serverTasks, serverTrash, enqueueLog, enqueued, ref>>

\* api.sync.syncOperations resolves with the service's response.  What the
\* service does with the operations it accepts is its own business: the engine
\* sees the response only.
DrainResponse(d) ==
    /\ drains[d].pc = "sending"
    /\ navOnline
    /\ \E response \in SyncResponses(drains[d].batch) :
         drains' = [drains EXCEPT ![d].pc = "marking", ![d].response = response]
    /\ last' = Step("drainResponse", NoId, "api", "ok")
    /\ UNCHANGED <<now, taskDB, syncQueue, tasks, loading, error, syncStatus, isOffline,
                   navOnline, app, listeners, dbInstance, conflictList, calls, serverTasks, serverTrash, enqueueLog, enqueued, ref>>

\* Promise.all(operations.map((op) => syncQueueDB.markSynced(op.id)))
DrainMark(d) ==
    /\ drains[d].pc = "marking"
    /\ syncQueue' = MarkAllSynced(syncQueue, drains[d].batch)
    /\ drains' = [drains EXCEPT ![d].pc = "clearing"]
    /\ last' = Step("drainMark", NoId, "api", "ok")
    /\ UNCHANGED <<now, taskDB, tasks, loading, error, syncStatus, isOffline, navOnline,
                   app, listeners, dbInstance, conflictList, calls, serverTasks, serverTrash, enqueueLog, enqueued, ref>>

\* Mutant: the drain writes the conflicting records of the response to the
\* tasks store.
DrainClear_AppliesConflicts(d) ==
    /\ drains[d].pc = "clearing"
    /\ syncQueue' = ClearSynced(syncQueue)
    /\ taskDB' = BulkPut(taskDB, GetAll(drains[d].response.conflicts))
    /\ syncStatus' = "success"
    /\ isOffline' = FALSE
    /\ drains' = [drains EXCEPT ![d] = IdleDrain]
    /\ last' = Step("drainDone", NoId, "api", "ok")
    /\ enqueueLog' = SelectSeq(enqueueLog, LAMBDA i : i \in Ids(ClearSynced(syncQueue)))
    /\ UNCHANGED <<now, tasks, loading, error, navOnline, app, listeners, dbInstance,
                   conflictList, calls, serverTasks, serverTrash, enqueued, ref>>

\* clearSynced, setSyncStatus('success'), setOffline(false), return result.
DrainClear(d) ==
    /\ drains[d].pc = "clearing"
    /\ syncQueue' = ClearSynced(syncQueue)
    /\ syncStatus' = "success"
    /\ isOffline' = FALSE
    /\ drains' = [drains EXCEPT ![d] = IdleDrain]
    /\ last' = Step("drainDone", NoId, "api", "ok")
    /\ enqueueLog' = SelectSeq(enqueueLog, LAMBDA i : i \in Ids(ClearSynced(syncQueue)))
    /\ UNCHANGED <<now, taskDB, tasks, loading, error, navOnline, app, listeners, dbInstance, conflictList, calls,
                   serverTasks, serverTrash, enqueued, ref>>

\* Mutant: the catch block marks the batch synced.
DrainFail_MarksBatch(d) ==
    /\ drains[d].pc = "sending"
    /\ syncQueue' = MarkAllSynced(syncQueue, drains[d].batch)
    /\ syncStatus' = "error"
    /\ isOffline' = TRUE
    /\ drains' = [drains EXCEPT ![d] = IdleDrain]
    /\ last' = Step("drainFailed", NoId, "api", "caught")
    /\ UNCHANGED <<now, taskDB, tasks, loading, error, navOnline, app, listeners, dbInstance,
                   conflictList, calls, serverTasks, serverTrash, enqueueLog, enqueued, ref>>

\* Mutant: the catch block reports nothing: the status stays 'syncing'.
DrainFail_Silent(d) ==
    /\ drains[d].pc = "sending"
    /\ drains' = [drains EXCEPT ![d] = IdleDrain]
    /\ last' = Step("drainFailed", NoId, "api", "caught")
    /\ UNCHANGED <<now, taskDB, syncQueue, tasks, loading, error, syncStatus, isOffline,
                   navOnline, app, listeners, dbInstance, conflictList, calls, serverTasks, serverTrash,
                   enqueueLog, enqueued, ref>>

\* api.sync.syncOperations throws: the catch block.
DrainFail(d) ==
    /\ drains[d].pc = "sending"
    /\ syncStatus' = "error"
    /\ isOffline' = TRUE
    /\ drains' = [drains EXCEPT ![d] = IdleDrain]
    /\ last' = Step("drainFailed", NoId, "api", "caught")
    /\ UNCHANGED <<now, taskDB, syncQueue, tasks, loading, error, navOnline, app, listeners, dbInstance,
                   conflictList, calls, serverTasks, serverTrash, enqueueLog, enqueued, ref>>

\* OfflineIndicator.handleSync: the button is rendered when isOffline or the
\* status is 'error', and disabled while the status is 'syncing'; the value
\* syncWithBackend returns is dropped.
HandleSync(slots) ==
    /\ app = "ready"
    /\ isOffline \/ syncStatus = "error"
    /\ syncStatus # "syncing"
    /\ \E d \in slots : StartDrain(d, "manual", slots)
    /\ UNCHANGED <<now, taskDB, syncQueue, tasks, loading, error, isOffline, navOnline,
                   app, listeners, dbInstance, conflictList, calls, serverTasks, serverTrash, enqueueLog, enqueued, ref>>

\* OfflineIndicator's timer: 'success' goes back to 'idle' after two seconds.
HideSuccess ==
    /\ syncStatus = "success"
    /\ syncStatus' = "idle"
    /\ last' = Step("hideSuccess", NoId, "timer", "ok")
    /\ UNCHANGED <<now, taskDB, syncQueue, tasks, loading, error, isOffline, navOnline,
                   app, listeners, dbInstance, drains, conflictList, calls, serverTasks, serverTrash, enqueueLog, enqueued, ref>>

\* ------------------------------------------------------- connectivity events
\* The executions the 'online' event starts: one per registered listener, in
\* the first slots of `slots` that are free.
AutoStarted(slots) ==
    LET free == {d \in slots : ~InFlight(d)}
    IN  {d \in free : Cardinality({e \in free : e < d}) < listeners}

\* The 'online' listeners of setupAutoSync: each calls syncManager.autoSync(),
\* which drains when navigator.onLine; the value syncWithBackend returns is
\* dropped.  With every slot of `slots` taken the event starts no further
\* execution.
GoOnline(slots) ==
    /\ ~navOnline
    /\ navOnline' = TRUE
    /\ IF AutoStarted(slots) # {}
       THEN /\ drains' = [d \in DrainSlots |->
                            IF d \in AutoStarted(slots)
                            THEN [IdleDrain EXCEPT !.pc = "reading"] ELSE drains[d]]
            /\ syncStatus' = "syncing"
            /\ last' = Step("drainStart", NoId, "auto", "ok")
       ELSE /\ last' = Step("online", NoId, "event", "noop")
            /\ UNCHANGED <<drains, syncStatus>>
    /\ UNCHANGED <<now, taskDB, syncQueue, tasks, loading, error, isOffline, app, listeners, dbInstance,
                   conflictList, calls, serverTasks, serverTrash, enqueueLog, enqueued, ref>>

\* The 'offline' listeners of setupAutoSync: each calls setOffline(true).
GoOffline ==
    /\ navOnline
    /\ navOnline' = FALSE
    /\ isOffline' = IF listeners > 0 THEN TRUE ELSE isOffline
    /\ last' = Step("offline", NoId, "event", "ok")
    /\ UNCHANGED <<now, taskDB, syncQueue, tasks, loading, error, syncStatus, app, listeners, dbInstance, drains,
                   conflictList, calls, serverTasks, serverTrash, enqueueLog, enqueued, ref>>

\* ------------------------------------------------------ PWAProviders' init
\* syncManager.loadTasks is called: setLoading(true), then the await of the list.
LoadStart ==
    /\ app = "mounted"
    /\ app' = "loading"
    /\ loading' = TRUE
    /\ last' = Step("loadStart", NoId, "api", "ok")
    /\ UNCHANGED <<now, taskDB, syncQueue, tasks, error, syncStatus, isOffline, navOnline, listeners, dbInstance,
                   drains, conflictList, calls, serverTasks, serverTrash, enqueueLog, enqueued, ref>>

\* api.tasks.list() resolves: setTasks, bulkPut, setOffline(false), setLoading(false).
LoadTasksOnline ==
    /\ app = "loading"
    /\ navOnline
    /\ LET list == GetAll(serverTasks)
       IN  /\ tasks' = list
           /\ taskDB' = BulkPut(taskDB, list)
    /\ ref' = taskDB'
    /\ isOffline' = FALSE
    /\ loading' = FALSE
    /\ app' = "loaded"
    /\ dbInstance' = TRUE
    /\ last' = Step("loadTasks", NoId, "online", "ok")
    /\ UNCHANGED <<now, syncQueue, error, syncStatus, navOnline, listeners, drains, conflictList, calls,
                   serverTasks, serverTrash, enqueueLog, enqueued>>

\* Mutant: the fallback shows the cached tasks but does not mark the state offline.
LoadTasksCached_StaysOnline ==
    /\ app = "loading"
    /\ tasks' = GetAll(taskDB)
    /\ loading' = FALSE
    /\ app' = "loaded"
    /\ dbInstance' = TRUE
    /\ last' = Step("loadTasks", NoId, "fallback", "ok")
    /\ UNCHANGED <<now, taskDB, syncQueue, error, syncStatus, isOffline, navOnline, listeners,
                   drains, conflictList, calls, serverTasks, serverTrash, enqueueLog, enqueued, ref>>

\* api.tasks.list() throws: the cached tasks, setOffline(true), setLoading(false).
LoadTasksCached ==
    /\ app = "loading"
    /\ tasks' = GetAll(taskDB)
    /\ isOffline' = TRUE
    /\ loading' = FALSE
    /\ app' = "loaded"
    /\ dbInstance' = TRUE
    /\ last' = Step("loadTasks", NoId, "fallback", "ok")
    /\ UNCHANGED <<now, taskDB, syncQueue, error, syncStatus, navOnline, listeners, drains,
                   conflictList, calls, serverTasks, serverTrash, enqueueLog, enqueued, ref>>

\* api.tasks.list() resolves, setTasks; then taskDB.bulkPut throws (initDB
\* rejects), and in the inner catch taskDB.getAll throws too: the outer catch,
\* setError('Failed to load tasks'), setLoading(false).
LoadTasksUncached ==
    /\ app = "loading"
    /\ navOnline
    /\ ~dbInstance
    /\ tasks' = GetAll(serverTasks)
    /\ error' = "Failed to load tasks"
    /\ loading' = FALSE
    /\ app' = "loaded"
    /\ last' = Step("loadTasks", NoId, "uncached", "ok")
    /\ UNCHANGED <<now, taskDB, syncQueue, syncStatus, isOffline, navOnline, listeners,
                   dbInstance, drains, conflictList, calls, serverTasks, serverTrash, enqueueLog,
                   enqueued, ref>>

\* api.tasks.list() throws and taskDB.getAll() throws too (IndexedDB cannot be
\* read): the outer catch, setError('Failed to load tasks'), setLoading(false).
LoadTasksFailed ==
    /\ app = "loading"
    /\ error' = "Failed to load tasks"
    /\ loading' = FALSE
    /\ app' = "loaded"
    /\ last' = Step("loadTasks", NoId, "failed", "ok")
    /\ UNCHANGED <<now, taskDB, syncQueue, tasks, syncStatus, isOffline, navOnline, listeners, dbInstance,
                   drains, conflictList, calls, serverTasks, serverTrash, enqueueLog, enqueued, ref>>

\* setupAutoSync(): registers the listeners and sets isOffline from navigator.onLine.
SetupAutoSync ==
    /\ app = "loaded"
    /\ app' = "ready"
    /\ listeners' = listeners + 1
    /\ UNCHANGED dbInstance
    /\ isOffline' = ~navOnline
    /\ last' = Step("setupAutoSync", NoId, "api", "ok")
    /\ UNCHANGED <<now, taskDB, syncQueue, tasks, loading, error, syncStatus, navOnline,
                   drains, conflictList, calls, serverTasks, serverTrash, enqueueLog, enqueued, ref>>

\* The app is closed and opened again: the stores of IndexedDB persist, the
\* zustand store and every call in flight are gone.
Restart ==
    /\ app = "ready"
    /\ app' = "mounted"
    /\ tasks' = <<>>
    /\ loading' = FALSE
    /\ error' = ""
    /\ syncStatus' = "idle"
    /\ isOffline' = FALSE
    /\ listeners' = 0
    /\ dbInstance' = FALSE
    /\ drains' = [d \in DrainSlots |-> IdleDrain]
    /\ conflictList' = <<>>
    /\ calls' = [c \in CallSlots |-> IdleCall]
    /\ last' = Step("restart", NoId, "event", "ok")
    /\ UNCHANGED <<now, taskDB, syncQueue, navOnline, serverTasks, serverTrash,
                   enqueueLog, enqueued, ref>>

\* The app is closed and not opened again: what IndexedDB holds is what is
\* left; every call in progress is gone before its next await resolves.
Stop ==
    /\ app = "ready"
    /\ app' = "stopped"
    /\ tasks' = <<>>
    /\ loading' = FALSE
    /\ error' = ""
    /\ syncStatus' = "idle"
    /\ isOffline' = FALSE
    /\ listeners' = 0
    /\ dbInstance' = FALSE
    /\ drains' = [d \in DrainSlots |-> IdleDrain]
    /\ conflictList' = <<>>
    /\ calls' = [c \in CallSlots |-> IdleCall]
    /\ last' = Step("stop", NoId, "event", "ok")
    /\ UNCHANGED <<now, taskDB, syncQueue, navOnline, serverTasks, serverTrash,
                   enqueueLog, enqueued, ref>>

\* PWAProviders is mounted again in the same page: its effect runs init once
\* more.  The effect has no cleanup: the zustand store, the listeners already
\* registered and the calls in flight all stay.
Remount ==
    /\ app = "ready"
    /\ listeners < Cardinality(DrainSlots)
    /\ app' = "mounted"
    /\ last' = Step("remount", NoId, "event", "ok")
    /\ UNCHANGED <<now, taskDB, syncQueue, tasks, loading, error, syncStatus, isOffline,
                   navOnline, listeners, dbInstance, drains, conflictList, calls, serverTasks, serverTrash,
                   enqueueLog, enqueued, ref>>

\* ------------------------------------------------- syncManager.resolveConflict
\* useLocal: taskDB.get, then api.tasks.update(taskId, localTask); nothing is
\* done with the record the service returns.
ResolveKeepLocal(id) ==
    LET localTask == DBGet(taskDB, id)
    IN  /\ \/ /\ localTask = NoTask
              /\ last' = Step("resolveLocal", id, "api", "noop")
              /\ UNCHANGED serverTasks
           \/ /\ localTask # NoTask
              /\ navOnline
              /\ id \in Ids(serverTasks)
              /\ DBGet(serverTasks, id).version < MaxVersion
              /\ serverTasks' = DBPut(serverTasks, ServerUpdated(id, ApiUpdateBody(localTask)))
              /\ last' = Step("resolveLocal", id, "api", "ok")
           \/ /\ localTask # NoTask
              /\ last' = Step("resolveLocal", id, "api", "threw")
              /\ UNCHANGED serverTasks
        /\ UNCHANGED <<now, taskDB, syncQueue, tasks, loading, error, syncStatus,
                       isOffline, navOnline, app, listeners, dbInstance, drains, conflictList, calls, serverTrash,
                       enqueueLog, enqueued, ref>>

\* Mutant: the record put is the local one with the remote fields merged in
\* and the local version incremented, as the store's updateTask computes it.
ResolveKeepRemote_Merged(id) ==
    /\ \/ /\ navOnline
          /\ id \in Ids(serverTasks)
          /\ \A t \in Range(tasks) : t.id = id => t.version < MaxVersion
          /\ LET remoteTask == DBGet(serverTasks, id)
                 localTask == DBGet(taskDB, id)
             IN  /\ taskDB' = DBPut(taskDB, [remoteTask EXCEPT !.version = localTask.version + 1])
                 /\ tasks' = StoreUpdateTask(tasks, id, remoteTask)
          /\ ref' = taskDB'
          /\ last' = Step("resolveRemote", id, "api", "ok")
       \/ /\ last' = Step("resolveRemote", id, "api", "threw")
          /\ UNCHANGED <<taskDB, tasks, ref>>
    /\ UNCHANGED <<now, syncQueue, loading, error, syncStatus, isOffline, navOnline, app, listeners, dbInstance,
                   drains, conflictList, calls, serverTasks, serverTrash, enqueueLog, enqueued>>

\* !useLocal: api.tasks.get(taskId), taskDB.put(remoteTask), store.updateTask.
ResolveKeepRemote(id) ==
    /\ \/ /\ navOnline
          /\ id \in Ids(serverTasks)
          /\ \A t \in Range(tasks) : t.id = id => t.version < MaxVersion
          /\ LET remoteTask == DBGet(serverTasks, id)
             IN  /\ taskDB' = DBPut(taskDB, remoteTask)
                 /\ tasks' = StoreUpdateTask(tasks, id, remoteTask)
          /\ ref' = taskDB'
          /\ last' = Step("resolveRemote", id, "api", "ok")
       \/ /\ last' = Step("resolveRemote", id, "api", "threw")
          /\ UNCHANGED <<taskDB, tasks, ref>>
    /\ UNCHANGED <<now, syncQueue, loading, error, syncStatus, isOffline, navOnline, app, listeners, dbInstance,
                   drains, conflictList, calls, serverTasks, serverTrash, enqueueLog, enqueued>>

ResolveConflict(id, useLocal) ==
    /\ app = "ready"
    /\ IF useLocal THEN ResolveKeepLocal(id) ELSE ResolveKeepRemote(id)

\* ---------------------------------------------------------------- environment
\* Another device edits a task the service holds: the service increments version.
RemoteEdit(id) ==
    /\ id \in Ids(serverTasks)
    /\ DBGet(serverTasks, id).version < MaxVersion
    /\ serverTasks' = DBPut(serverTasks,
                            ServerUpdated(id, [completed |-> ~DBGet(serverTasks, id).completed]))
    /\ last' = Step("remoteEdit", id, "env", "ok")
    /\ UNCHANGED <<now, taskDB, syncQueue, tasks, loading, error, syncStatus, isOffline,
                   navOnline, app, listeners, dbInstance, drains, conflictList, calls, serverTrash, enqueueLog, enqueued, ref>>

\* ------------------------------------------------------------ specification
KnownIds == Ids(taskDB) \cup Ids(serverTasks) \cup Ids(Range(tasks))

Init ==
    /\ now = 1
    /\ taskDB = {}
    /\ syncQueue = {}
    /\ tasks = <<>>
    /\ loading = FALSE
    /\ error = ""
    /\ syncStatus = "idle"
    /\ isOffline = FALSE
    /\ navOnline \in BOOLEAN
    /\ app = "mounted"
    /\ listeners = 0
    /\ dbInstance = FALSE
    /\ drains = [d \in DrainSlots |-> IdleDrain]
    /\ conflictList = <<>>
    /\ calls = [c \in CallSlots |-> IdleCall]
    /\ serverTasks \in {{}} \cup {{NewTask(id, title)} : id \in ServerIds, title \in Titles}
    /\ serverTrash = {}
    /\ enqueueLog = <<>>
    /\ enqueued = 0
    /\ ref = {}
    /\ last = Step("init", NoId, "api", "ok")

\* PWAProviders' init, the three mutation handlers, the drain, the
\* connectivity events.
Boot == LoadStart \/ LoadTasksOnline \/ LoadTasksCached \/ SetupAutoSync

Mutate(failures) ==
    \/ \E title \in Titles : HandleSubmit(title, failures)
    \/ \E id \in KnownIds : HandleToggleComplete(id, failures)
    \/ \E id \in KnownIds : HandleDelete(id, failures)

Drain(slots) ==
    \/ HandleSync(slots)
    \/ \E d \in slots : DrainRead(d)
    \/ \E d \in slots : DrainResponse(d)
    \/ \E d \in slots : DrainMark(d)
    \/ \E d \in slots : DrainClear(d)
    \/ \E d \in slots : DrainFail(d)
    \/ HideSuccess

Network(slots) == GoOnline(slots) \/ GoOffline

Resolve == \E id \in KnownIds, useLocal \in BOOLEAN : ResolveConflict(id, useLocal)

Remote == \E id \in KnownIds : RemoteEdit(id)

\* The sync protocol: mutations (an online call fails with the network down),
\* connectivity, a drain at a time.
Next == Boot \/ Mutate(NetworkDown) \/ Network(OneSlot) \/ Drain(OneSlot)

Spec == Init /\ [][Next]_vars

\* Drains requested while one is in flight: creations, connectivity, drains.
NextReentrant ==
    \/ Boot
    \/ \E title \in Titles : HandleSubmit(title, NetworkDown)
    \/ Network(DrainSlots)
    \/ Drain(DrainSlots)

SpecReentrant == Init /\ [][NextReentrant]_vars

\* Conflict resolution: creations, toggles, edits from another device,
\* resolveConflict.
NextResolve ==
    \/ Boot
    \/ \E title \in Titles : HandleSubmit(title, NetworkDown)
    \/ \E id \in KnownIds : HandleToggleComplete(id, NetworkDown)
    \/ Remote
    \/ Resolve

SpecResolve == Init /\ [][NextResolve]_vars

\* Persistence: mutations and restarts of the app.
NextRestart == Boot \/ Mutate(NetworkDown) \/ GoOffline \/ Restart

SpecRestart == Init /\ [][NextRestart]_vars

\* The three handlers, with every way an online call can fail, and the
\* connection going down.
NextForms ==
    \/ Boot
    \/ \E title \in FormTitles : HandleSubmit(title, Failures)
    \/ \E id \in KnownIds : HandleToggleComplete(id, Failures)
    \/ \E id \in KnownIds : HandleDelete(id, Failures)
    \/ GoOffline

SpecForms == Init /\ [][NextForms]_vars

\* The initial load with every outcome: creations and toggles, restarts of the
\* app, mounts of the provider in the same page, IndexedDB unreadable at the
\* load.
NextLoad ==
    \/ Boot
    \/ LoadTasksFailed
    \/ \E title \in Titles : HandleSubmit(title, NetworkDown)
    \/ \E id \in KnownIds : HandleToggleComplete(id, NetworkDown)
    \/ GoOffline
    \/ Restart
    \/ Remount

SpecLoad == Init /\ [][NextLoad]_vars

\* The provider mounted more than once in a page: creations, connectivity,
\* drains.
NextMount ==
    \/ Boot
    \/ Remount
    \/ \E title \in Titles : HandleSubmit(title, NetworkDown)
    \/ Network(DrainSlots)
    \/ Drain(DrainSlots)

SpecMount == Init /\ [][NextMount]_vars

\* Conflicts: toggles, edits from another device, connectivity, drains,
\* resolveConflict.
NextConflict ==
    \/ Boot
    \/ \E id \in KnownIds : HandleToggleComplete(id, NetworkDown)
    \/ Remote
    \/ Network(OneSlot)
    \/ Drain(OneSlot)
    \/ Resolve

SpecConflict == Init /\ [][NextConflict]_vars

\* The offline functions from await to await: the calls the handlers make
\* with isOffline set or after a failed online call, interleaved.
Calls ==
    \/ \E c \in CallSlots, title \in Titles : CreateCall(c, title, NetworkDown)
    \/ \E c \in CallSlots, id \in KnownIds : UpdateCall(c, id, NetworkDown)
    \/ \E c \in CallSlots, id \in KnownIds : DeleteCall(c, id, NetworkDown)
    \/ \E c \in CallSlots : CreatePut(c)
    \/ \E c \in CallSlots : CreateAdd(c)
    \/ \E c \in CallSlots : UpdateGet(c)
    \/ \E c \in CallSlots : UpdatePut(c)
    \/ \E c \in CallSlots : UpdateAdd(c)
    \/ \E c \in CallSlots : DeleteAdd(c)
    \/ \E c \in CallSlots : DeleteDelete(c)

NextCalls == Boot \/ Calls \/ GoOffline

SpecCalls == Init /\ [][NextCalls]_vars

\* The same, and the app stopping at any point, a call in progress included.
NextInterrupt == Boot \/ Calls \/ GoOffline \/ Stop

SpecInterrupt == Init /\ [][NextInterrupt]_vars

\* IndexedDB cannot be opened: the loads with every outcome, the three
\* handlers, the connection going down.
NextNoDB ==
    \/ Boot
    \/ LoadTasksUncached
    \/ LoadTasksFailed
    \/ Mutate(NetworkDown)
    \/ GoOffline

SpecNoDB == Init /\ [][NextNoDB]_vars

\* Progress of the drain: the connection, once up, stays up.  Every awaited
\* call of syncWithBackend settles; the service, asked again and again, accepts
\* a batch in the end; the 'online' event comes; the sync button, while it is
\* offered, is pressed.
NextLive == Boot \/ Mutate(NetworkDown) \/ GoOnline(OneSlot) \/ Drain(OneSlot)

Fairness ==
    /\ \A d \in OneSlot :
          /\ WF_vars(DrainRead(d))
          /\ WF_vars(DrainResponse(d) \/ DrainFail(d))
          /\ SF_vars(DrainResponse(d))
          /\ WF_vars(DrainMark(d))
          /\ WF_vars(DrainClear(d))
    /\ WF_vars(GoOnline(OneSlot))
    /\ WF_vars(HandleSync(OneSlot))

SpecLive == Init /\ [][NextLive]_vars /\ Fairness

\* ------------------------------------------------------------------ claims
\* The drain that finishes in this step, if one does.
Finishing(d) == drains[d].pc = "clearing" /\ drains'[d].pc = "idle"

Unsynced(queue) == {op \in queue : ~op.synced}

\* The local change a queued operation stands for is in the tasks store.
LocalApplied(op) ==
    CASE op.operation = "create" -> op.taskId \in Ids(taskDB)
      [] op.operation = "update" ->
            /\ op.taskId \in Ids(taskDB)
            /\ \A f \in DOMAIN op.data : DBGet(taskDB, op.taskId)[f] = op.data[f]
      [] op.operation = "delete" -> op.taskId \notin Ids(taskDB)

\* C1: a create, update or delete whose online call failed is afterwards an
\* applied change of the tasks store together with an unsynced operation of
\* that kind on that task in the outbox.
C1_NoSilentLoss ==
    last.via = "fallback" /\ last.op \in {"create", "update", "delete"} =>
        \E op \in Unsynced(syncQueue) :
            /\ op.taskId = last.id
            /\ op.operation = last.op
            /\ LocalApplied(op)

\* C2: no operation is in the batches of two executions of syncWithBackend that
\* have both submitted their batch and not yet finished.
Submitted(d) == drains[d].pc \in {"sending", "marking", "clearing"}

C2_NoDoubleSubmit ==
    \A d1, d2 \in DrainSlots :
        d1 # d2 /\ Submitted(d1) /\ Submitted(d2) =>
            Ids(Range(drains[d1].batch)) \cap Ids(Range(drains[d2].batch)) = {}

\* C3: in a submitted batch, two operations on the same task are in the order
\* in which they were enqueued.
Position(id) == CHOOSE i \in 1..Len(enqueueLog) : enqueueLog[i] = id

C3_BatchInEnqueueOrder ==
    \A d \in DrainSlots :
        drains[d].pc = "sending" =>
            \A i, j \in 1..Len(drains[d].batch) :
                LET a == drains[d].batch[i]
                    b == drains[d].batch[j]
                IN  /\ i < j
                    /\ a.taskId = b.taskId
                    /\ a.id \in Range(enqueueLog)
                    /\ b.id \in Range(enqueueLog)
                    => Position(a.id) < Position(b.id)

\* C4: when a drain finishes, the operations of its batch on the tasks the
\* response lists as conflicts are still in the outbox, unsynced, and the
\* drain has marked as many operations as the response's synced count.
C4_OnlyAcceptedMarked ==
    [][\A d \in DrainSlots :
          Finishing(d) =>
              /\ \A i \in 1..Len(drains[d].batch) :
                    drains[d].batch[i].taskId \in Ids(drains[d].response.conflicts) =>
                        drains[d].batch[i] \in Unsynced(syncQueue')
              /\ Cardinality({op \in Range(drains[d].batch) : op \notin syncQueue'})
                    = drains[d].response.synced]_vars

\* C5: when a drain finishes, every task the response lists as a conflict has
\* exactly one entry in the conflict list given to the dialog.
C5_ConflictsSurfaced ==
    [][\A d \in DrainSlots :
          Finishing(d) =>
              \A c \in drains[d].response.conflicts :
                  Cardinality({i \in 1..Len(conflictList') : conflictList'[i].id = c.id}) = 1]_vars

\* C6: when the batch call of a drain fails, the outbox is as it was (nothing
\* marked, nothing removed); and the batch a drain submits is all the
\* operations that are unsynced when it reads the outbox, so the operations of
\* a failed batch are submitted again by the next drain.
C6_FailedDrainKeepsOutbox ==
    [][/\ last'.op = "drainFailed" => syncQueue' = syncQueue
       /\ \A d \in DrainSlots :
             drains[d].pc = "reading" /\ drains'[d].pc = "sending" =>
                 Range(drains'[d].batch) = Unsynced(syncQueue)]_vars

C6_Witness ==
    /\ last.op = "drainFailed"
    /\ Unsynced(syncQueue) # {}
    /\ syncStatus = "error"

\* C7: after resolveConflict(id, true) on a task of the tasks store, the tasks
\* store holds the record the service returned for the update.
C7_KeepLocalStoresAck ==
    last.op = "resolveLocal" /\ last.res = "ok" =>
        DBGet(taskDB, last.id) = DBGet(serverTasks, last.id)

\* C8: resolveConflict(id, false) writes nothing to the service, and afterwards
\* the tasks store holds exactly the service's record of the task.
C8_KeepRemoteOverwrites ==
    [][last'.op = "resolveRemote" /\ last'.res = "ok" =>
          /\ serverTasks' = serverTasks
          /\ serverTrash' = serverTrash
          /\ last'.id \in Ids(serverTasks)
          /\ DBGet(taskDB', last'.id) = DBGet(serverTasks, last'.id)]_vars

C8_Witness ==
    /\ last.op = "resolveRemote"
    /\ last.res = "ok"
    /\ \E op \in Unsynced(syncQueue) : op.taskId = last.id /\ op.operation = "update"
    /\ DBGet(taskDB, last.id).version = 3

\* C9: whenever the record the tasks store holds for a task changes, its
\* version becomes strictly greater.
C9_VersionMonotonic ==
    [][\A id \in Ids(taskDB) \cap Ids(taskDB') :
          DBGet(taskDB', id) # DBGet(taskDB, id) =>
              DBGet(taskDB', id).version > DBGet(taskDB, id).version]_vars

\* C10: after a start of the app in which the list call fails, the task list
\* is the cumulative effect of the offline calls on the persisted tasks, each
\* task once.
C10_Durability ==
    last.op = "loadTasks" /\ last.via = "fallback" =>
        /\ Range(tasks) = ref
        /\ Len(tasks) = Cardinality(ref)

C10_Witness ==
    /\ last.op = "loadTasks"
    /\ last.via = "fallback"
    /\ enqueued >= 2
    /\ \E t \in Range(tasks) : t.version = 2 /\ t.completed

\* C11: a drain that succeeds leaves none of the operations it read in the
\* outbox; only a create, update or delete adds an unsynced operation; and a
\* drain that reads an outbox without unsynced operations ends there: it sends
\* no batch, marks nothing and returns { synced: 0, conflicts: [] }.  So the
\* second of two drains with no mutation since the first read is a no-op.
C11_DrainIdempotent ==
    [][/\ \A d \in DrainSlots :
             Finishing(d) => Ids(Range(drains[d].batch)) \cap Ids(syncQueue') = {}
       /\ Unsynced(syncQueue') \ Unsynced(syncQueue) # {} =>
             last'.op \in {"create", "update", "delete"}
       /\ \A d \in DrainSlots :
             drains[d].pc = "reading" /\ drains'[d] # drains[d] /\ Unsynced(syncQueue) = {} =>
                 /\ drains'[d] = IdleDrain
                 /\ syncQueue' = syncQueue
                 /\ last'.op = "drainEmpty"]_vars

C11_Witness ==
    /\ last.op = "drainEmpty"
    /\ enqueued = 2
    /\ syncQueue = {}
    /\ syncStatus = "success"

C13_OfflineCreate ==
    [][\A title \in FormTitles, via \in {"offline"} \cup Failures :
          taskDB = {} /\ syncQueue = {} /\ CreateTaskOffline(title, via) =>
              \E t \in taskDB', op \in syncQueue' :
                  /\ taskDB' = {t}
                  /\ t.title = title
                  /\ t.completed = FALSE
                  /\ t.version = 1
                  /\ t.id \in GeneratedIds(1)
                  /\ t.id \notin ServerIds
                  /\ syncQueue' = {op}
                  /\ op.synced = FALSE
                  /\ op.operation = "create"
                  /\ op.taskId = t.id]_vars

C13_Witness ==
    /\ last.op = "create"
    /\ last.via = "offline"
    /\ \E t \in taskDB : taskDB = {t} /\ t.title = "Call dentist" /\ t.id = last.id
    /\ Cardinality(syncQueue) = 1

\* C14: after a creation that succeeded online, the tasks store holds the
\* service's record under the id the service assigned, and the outbox is as it
\* was.
C14_OnlineCreate ==
    [][last'.op = "create" /\ last'.via = "online" =>
          /\ last'.id \in Ids(taskDB')
          /\ DBGet(taskDB', last'.id) = DBGet(serverTasks', last'.id)
          /\ syncQueue' = syncQueue]_vars

\* C15: after an update or delete that succeeded, online or offline, the tasks
\* store reflects it: the updated task is there with the value shown in the
\* list, the deleted task is gone.  (The created task is C14's.)
C15_LocalStoreAlways ==
    last.op \in {"update", "delete"} /\ last.res = "ok" =>
        CASE last.op = "update" ->
                /\ last.id \in Ids(taskDB)
                /\ DBGet(taskDB, last.id).completed = Find(tasks, last.id).completed
          [] last.op = "delete" -> last.id \notin Ids(taskDB)

\* C16: after a load whose list call succeeded, the tasks store holds exactly
\* the records of the returned list, and the state is marked online.
C16_LoadReplaces ==
    last.op = "loadTasks" /\ last.via = "online" =>
        /\ taskDB = serverTasks
        /\ isOffline = FALSE

\* C17, as claimed: after a load whose list call failed, the list shown is the
\* cached tasks, the state is marked offline, no error is set, loading is over.
C17_LoadFailure ==
    last.op = "loadTasks" /\ last.via \in {"fallback", "failed"} =>
        /\ tasks = GetAll(taskDB)
        /\ isOffline = TRUE
        /\ error = ""
        /\ loading = FALSE

\* C17, amended: when the list call fails and the tasks store can be read, the
\* list shown becomes the cached tasks, the state is marked offline, the error
\* is left as it was and loading ends; when the tasks store cannot be read
\* either, the error is set, loading ends, the list and the offline flag are
\* left as they were.
C17_LoadFailureCached ==
    [][last'.op = "loadTasks" =>
          /\ last'.via = "fallback" =>
                /\ tasks' = GetAll(taskDB)
                /\ isOffline' = TRUE
                /\ error' = error
                /\ loading' = FALSE
          /\ last'.via = "failed" =>
                /\ error' = "Failed to load tasks"
                /\ loading' = FALSE
                /\ tasks' = tasks
                /\ isOffline' = isOffline]_vars

C17_Witness ==
    /\ last.op = "loadTasks"
    /\ last.via = "fallback"
    /\ Len(tasks) = 2
    /\ isOffline
    /\ navOnline

\* C18: a transition from offline to online starts at most one execution of
\* syncWithBackend, and exactly one when the listeners are registered and an
\* execution can start.
C18_OneDrainPerTransition ==
    [][~navOnline /\ navOnline' =>
          LET started == {d \in DrainSlots : ~InFlight(d) /\ drains'[d].pc = "reading"}
          IN  /\ Cardinality(started) <= 1
              /\ listeners >= 1 /\ (\E d \in DrainSlots : ~InFlight(d)) =>
                    Cardinality(started) = 1]_vars

\* C19: when the service rejects the online call of a handler (401, 422),
\* nothing is added to the outbox and the store's error is set.
C19_RejectionsNotQueued ==
    [][last'.op \in {"create", "update", "delete"} /\ last'.via \in Rejections =>
          /\ syncQueue' = syncQueue
          /\ error' # ""]_vars

\* C20: no write operation of the engine (the three offline mutations, the
\* drain, resolveConflict) rejects to its caller.
C20_WritesNeverThrow ==
    last.op \in {"create", "update", "delete", "drainFailed", "resolveLocal", "resolveRemote"} =>
        last.res # "threw"

\* C21: after a create, update or delete whose online call failed and that was
\* deferred to the outbox, the indicator shows it: isOffline is set or the
\* status is 'error'.
C21_FailureShown ==
    last.op \in {"create", "update", "delete"} /\ last.via \in Failures /\ last.res = "ok" =>
        isOffline \/ syncStatus = "error"

\* C22: when initDB rejects in an offline create, update or delete (dbInstance
\* is still null after the call), the call rejects, the task list shown is as
\* it was, and neither a task record nor an operation has been stored.
C22_NoPretendedWrite ==
    [][/\ last'.op \in {"create", "update", "delete"}
       /\ last'.via # "online"
       /\ ~dbInstance'
       => /\ last'.res = "threw"
          /\ tasks' = tasks
          /\ taskDB' = taskDB
          /\ syncQueue' = syncQueue
          /\ enqueued' = enqueued
          /\ error' = error]_vars

C22_Witness ==
    /\ last.op = "update"
    /\ last.res = "threw"
    /\ ~dbInstance
    /\ Shown(last.id)
    /\ ~isOffline

\* C23: no step of syncWithBackend changes the tasks store or the list shown,
\* whatever the response, conflicts included; the tasks store changes only in
\* a create, update or delete, in loadTasks and in resolveConflict(id, false).
DrainSteps ==
    {"drainStart", "drainEmpty", "drainSend", "drainResponse", "drainMark", "drainDone",
     "drainFailed"}

CreatePending(id) ==
    \E op \in syncQueue : op.operation = "create" /\ op.taskId = id

C24_TempIdReconciled ==
    /\ \A t \in taskDB : t.id \in GeneratedIds(1) => CreatePending(t.id)
    /\ \A op \in Unsynced(syncQueue) : op.taskId \in GeneratedIds(1) => CreatePending(op.taskId)

\* C25: an operation enqueued after a drain has read the outbox is left alone
\* by that drain: its marking step does not change it, and when the drain
\* finishes the operation is in the outbox, unsynced.  (An operation that is
\* not in the batch and was enqueued after an operation of the batch was
\* enqueued after the read: the batch is every operation unsynced at the read.)
EnqueuedAfterRead(d, op) ==
    /\ op.id \notin Ids(Range(drains[d].batch))
    /\ op.id \in Range(enqueueLog)
    /\ \E b \in Range(drains[d].batch) :
          b.id \in Range(enqueueLog) /\ Position(b.id) < Position(op.id)

C25_LateOperationKept ==
    [][\A d \in DrainSlots :
          drains[d].pc \in {"marking", "clearing"} /\ drains'[d] # drains[d] =>
              \A op \in syncQueue :
                  EnqueuedAfterRead(d, op) =>
                      /\ op \in syncQueue'
                      /\ Finishing(d) => op \in Unsynced(syncQueue')]_vars

\* C26: when the drain an 'online' event started ends without error, isOffline
\* is false: both when it has sent a batch and cleared it, and when it found
\* the outbox without unsynced operations at its read.
C26_OnlineAfterDrain ==
    [][/\ last'.op = "drainDone" => ~isOffline'
       /\ last.op = "drainStart" /\ last.via = "auto" /\ last'.op = "drainEmpty" =>
             ~isOffline']_vars

\* C27: whenever no call is in progress, the list shown and the tasks store
\* hold the same records: the same ids, each once, with the same fields and
\* version.
C27_ListMatchesStore ==
    app = "ready" =>
        /\ Range(tasks) = taskDB
        /\ Len(tasks) = Cardinality(taskDB)

\* C28: when two calls of updateTaskOffline on a task have both returned, the
\* stored record is the cumulative effect of the two: the fields of both
\* updates and the version raised once by each, with both update operations
\* in the outbox.
UpdatesQueued(id) == {op \in syncQueue : op.operation = "update" /\ op.taskId = id}

C28_NoLostUpdate ==
    /\ InProgress = {}
    /\ last.op = "update"
    /\ last.res = "ok"
    /\ Cardinality(UpdatesQueued(last.id)) = 2
    /\ \A op \in syncQueue : op.taskId = last.id => op.operation = "update"
    => /\ last.id \in Ids(taskDB)
       /\ DBGet(taskDB, last.id) = DBGet(ref, last.id)

\* C29: at every point of an offline call, and when the app stops there, what
\* is persisted holds no applied change without its operation: a task stored
\* under a generated id has its create operation in the outbox, and a stored
\* version is raised at most once for each update operation in the outbox.
C29_AppliedHasOperation ==
    \A t \in taskDB :
        /\ t.id \in GeneratedIds(1) => CreatePending(t.id)
        /\ t.version <= 1 + Cardinality(UpdatesQueued(t.id))

\* C30: a load whose list call succeeds keeps the local effect of the
\* operations still unsynced in the outbox: a task whose create is unsynced
\* is in the list shown afterwards, and the stored record of a task with an
\* unsynced update is left as it was.
C30_LoadKeepsPending ==
    [][last'.op = "loadTasks" /\ last'.via = "online" =>
          \A op \in Unsynced(syncQueue) :
              /\ op.operation = "create" => op.taskId \in Ids(Range(tasks'))
              /\ op.operation = "update" /\ op.taskId \in Ids(taskDB) =>
                    DBGet(taskDB', op.taskId) = DBGet(taskDB, op.taskId)]_vars

====
